---- MODULE Spec2Model ----
(***************************************************************************)
(* A model of crates/cli/src/blame.rs: the git-blame cache (BlameCache),   *)
(* the porcelain parser (parse_git_blame_porcelain) and the helpers they   *)
(* use.  Text is modelled as TLA+ strings, handled character by character  *)
(* with Len, SubSeq and \o, so that tokenizing, prefix tests, integer      *)
(* parsing and number formatting are computed, not assumed.                *)
(***************************************************************************)
EXTENDS Integers, Sequences, FiniteSets, TLC

(***************************************************************************)
(* Text helpers: the std string functions the code calls.                  *)
(***************************************************************************)

\* str::starts_with
StartsWith(s, pre) == Len(s) >= Len(pre) /\ SubSeq(s, 1, Len(pre)) = pre

\* the value str::strip_prefix yields when the prefix matches
StripPrefix(s, pre) == SubSeq(s, Len(pre) + 1, Len(s))

\* the characters char::is_whitespace accepts that a line can still hold
\* after str::lines has split the text
IsWhitespace(c) == c \in {" ", "\t"}

RECURSIVE SplitFrom(_, _, _, _)
SplitFrom(s, k, cur, acc) ==
    IF k > Len(s)
    THEN IF cur = "" THEN acc ELSE Append(acc, cur)
    ELSE LET c == SubSeq(s, k, k)
         IN IF IsWhitespace(c)
            THEN SplitFrom(s, k + 1, "", IF cur = "" THEN acc ELSE Append(acc, cur))
            ELSE SplitFrom(s, k + 1, cur \o c, acc)

\* str::split_whitespace, collected
split_whitespace(s) == SplitFrom(s, 1, "", << >>)

DigitChars == "0123456789"

IsDigit(c) == \E d \in 1..10 : SubSeq(DigitChars, d, d) = c

DigitVal(c) == (CHOOSE d \in 1..10 : SubSeq(DigitChars, d, d) = c) - 1

AllDigits(s) == \A k \in 1..Len(s) : IsDigit(SubSeq(s, k, k))

RECURSIVE DigitsValue(_, _)
DigitsValue(s, acc) ==
    IF s = "" THEN acc
    ELSE DigitsValue(Tail(s), acc * 10 + DigitVal(Head(s)))

\* str::parse::<u64>: an optional '+', then one or more decimal digits.
\* The inputs of this model stay far below 2^64, so PosOverflow does not arise.
ParseU64(s) ==
    LET body == IF StartsWith(s, "+") THEN Tail(s) ELSE s
    IN IF body # "" /\ AllDigits(body)
       THEN [ok |-> TRUE, val |-> DigitsValue(body, 0)]
       ELSE [ok |-> FALSE, val |-> 0]

\* str::parse::<i64>: an optional '+' or '-', then one or more decimal digits
ParseI64(s) ==
    LET neg  == StartsWith(s, "-")
        body == IF neg \/ StartsWith(s, "+") THEN Tail(s) ELSE s
    IN IF body # "" /\ AllDigits(body)
       THEN [ok |-> TRUE,
             val |-> IF neg THEN 0 - DigitsValue(body, 0) ELSE DigitsValue(body, 0)]
       ELSE [ok |-> FALSE, val |-> 0]

RECURSIVE DecNat(_)
DecNat(n) ==
    IF n < 10 THEN SubSeq(DigitChars, n + 1, n + 1)
    ELSE DecNat(n \div 10) \o SubSeq(DigitChars, (n % 10) + 1, (n % 10) + 1)

\* format!("{}", n) for an i64
Display(n) == IF n < 0 THEN "-" \o DecNat(0 - n) ELSE DecNat(n)

(***************************************************************************)
(* format_timestamp.  `now` is the reading of the wall clock.              *)
(***************************************************************************)
\* a formatter whose buckets include their upper limits
format_timestamp_inclusive(timestamp_secs, now) ==
    LET diff == now - timestamp_secs
    IN IF diff <= 60 THEN Display(diff) \o "s ago"
       ELSE IF diff <= 3600 THEN Display(diff \div 60) \o "m ago"
       ELSE IF diff <= 86400 THEN Display(diff \div 3600) \o "h ago"
       ELSE IF diff <= 604800 THEN Display(diff \div 86400) \o "d ago"
       ELSE IF diff <= 2592000 THEN Display(diff \div 604800) \o "w ago"
       ELSE IF diff <= 31536000 THEN Display(diff \div 2592000) \o "mo ago"
       ELSE Display(diff \div 31536000) \o "y ago"

\* lines 270-295
format_timestamp(timestamp_secs, now) ==
    LET diff == now - timestamp_secs
    IN IF diff < 60 THEN Display(diff) \o "s ago"
       ELSE IF diff < 3600 THEN Display(diff \div 60) \o "m ago"
       ELSE IF diff < 86400 THEN Display(diff \div 3600) \o "h ago"
       ELSE IF diff < 604800 THEN Display(diff \div 86400) \o "d ago"
       ELSE IF diff < 2592000 THEN Display(diff \div 604800) \o "w ago"
       ELSE IF diff < 31536000 THEN Display(diff \div 2592000) \o "mo ago"
       ELSE Display(diff \div 31536000) \o "y ago"

(***************************************************************************)
(* parse_git_blame_porcelain.  The state of the scan is the record         *)
(* [i, result, commit_cache]; `i` is the 0-based line cursor of the code,  *)
(* `result` maps final line numbers to BlameInfo records and               *)
(* `commit_cache` maps full commit hashes to <<author, timestamp>>.        *)
(***************************************************************************)

\* lines[i] of the code (0-based)
LineAt(lines, i) == lines[i + 1]

\* HashMap::insert
MapInsert(m, k, v) == [x \in (DOMAIN m) \cup {k} |-> IF x = k THEN v ELSE m[x]]

\* HashMap::new()
EmptyMap == << >>

\* the hash git reports for lines that are not committed yet
ZeroHash == "0000000000000000000000000000000000000000"

\* lines 172-186: the line at the cursor as a header; ok is FALSE when it has
\* fewer than 3 tokens or its third token is not a u64
Header(line) ==
    LET parts == split_whitespace(line)
        final == IF Len(parts) >= 3 THEN ParseU64(parts[3]) ELSE [ok |-> FALSE, val |-> 0]
    IN [ok          |-> final.ok,
        commit_hash |-> IF Len(parts) >= 1 THEN parts[1] ELSE "",
        final_line  |-> final.val]

\* lines 193-195: skip to the code line (or to the end of the input)
RECURSIVE SkipToTab(_, _)
SkipToTab(lines, i) ==
    IF i < Len(lines) /\ ~StartsWith(LineAt(lines, i), "\t")
    THEN SkipToTab(lines, i + 1)
    ELSE i

\* lines 202-219: collect author and author-time up to the code line
RECURSIVE ScanMetadata(_, _, _, _, _)
ScanMetadata(lines, i, author, timestamp, now) ==
    IF ~(i < Len(lines))
    THEN [i |-> i, author |-> author, timestamp |-> timestamp]
    ELSE LET metadata_line == LineAt(lines, i)
         IN IF StartsWith(metadata_line, "author ")
            THEN ScanMetadata(lines, i + 1, StripPrefix(metadata_line, "author "),
                              timestamp, now)
            ELSE IF StartsWith(metadata_line, "author-time ")
            THEN LET t == ParseI64(StripPrefix(metadata_line, "author-time "))
                 IN ScanMetadata(lines, i + 1, author,
                                 IF t.ok THEN format_timestamp(t.val, now)
                                 ELSE timestamp,
                                 now)
            ELSE IF StartsWith(metadata_line, "\t")
            THEN [i |-> i, author |-> author, timestamp |-> timestamp]
            ELSE ScanMetadata(lines, i + 1, author, timestamp, now)

\* a cached commit whose metadata lines are read again
ResolveCachedRescan(lines, i, cached) ==
    ScanMetadata(lines, i, cached[1], cached[2], 1000000059)

\* lines 191-196: a commit seen before; `cached` is its commit_cache entry
ResolveCached(lines, i, cached) ==
    [i |-> SkipToTab(lines, i), author |-> cached[1], timestamp |-> cached[2]]

\* lines 198-219: a commit seen for the first time
ResolveNew(lines, i, now) == ScanMetadata(lines, i, "Unknown", "", now)

\* an override that is forgotten
UncommittedNoOverride(commit_hash, author, timestamp) == <<author, timestamp>>

\* lines 227-231: uncommitted changes
UncommittedOverride(commit_hash, author, timestamp) ==
    IF commit_hash = ZeroHash
    THEN <<"Uncommitted", "now">>
    ELSE <<author, timestamp>>

\* a commit hash that is not abbreviated
AbbrevCommitWhole(commit_hash) == commit_hash

\* line 236: commit_hash[..commit_hash.len().min(8)]
AbbrevCommit(commit_hash) ==
    SubSeq(commit_hash, 1, IF Len(commit_hash) < 8 THEN Len(commit_hash) ELSE 8)

\* lines 233-240
BlameInfo(commit_hash, author, timestamp) ==
    [commit_hash |-> AbbrevCommit(commit_hash),
     author      |-> author,
     timestamp   |-> timestamp]

\* a skip that forgets to advance the cursor
SkipLineStay(st) == st

\* lines 173-176 and 180-186: not a header, advance one line
SkipLine(st) == [st EXCEPT !.i = st.i + 1]

\* lines 178-242: one record, from its header h (at the cursor) to its code line
ParseRecord(lines, st, h, now) ==
    LET seen  == h.commit_hash \in DOMAIN st.commit_cache
        r     == IF seen
                 THEN ResolveCached(lines, st.i + 1, st.commit_cache[h.commit_hash])
                 ELSE ResolveNew(lines, st.i + 1, now)
        cc    == IF seen THEN st.commit_cache
                 ELSE MapInsert(st.commit_cache, h.commit_hash,
                                <<r.author, r.timestamp>>)
        shown == UncommittedOverride(h.commit_hash, r.author, r.timestamp)
    IN [i            |-> r.i + 1,
        result       |-> MapInsert(st.result, h.final_line,
                                   BlameInfo(h.commit_hash, shown[1], shown[2])),
        commit_cache |-> cc]

\* lines 168-243: one iteration of the outer loop
LoopBody(lines, st, now) ==
    LET h == Header(LineAt(lines, st.i))
    IN IF h.ok THEN ParseRecord(lines, st, h, now) ELSE SkipLine(st)

RECURSIVE ParseFrom(_, _, _)
ParseFrom(lines, st, now) ==
    IF st.i < Len(lines)
    THEN ParseFrom(lines, LoopBody(lines, st, now), now)
    ELSE st.result

\* lines 163-166: the state before the loop
ParseStart == [i |-> 0, result |-> EmptyMap, commit_cache |-> EmptyMap]

\* lines 162-246, with one reading of the clock for the whole text
parse_git_blame_porcelain(lines, now) == ParseFrom(lines, ParseStart, now)

(***************************************************************************)
(* The inputs of the parser: every text made of at most MaxFrags pieces,   *)
(* each piece a whole porcelain record, a record with a malformed header,  *)
(* or a single line.                                                       *)
(***************************************************************************)
MaxFrags == 3

\* the readings the wall clock may give (SystemTime::now is not monotonic)
NowValues == {1000000059, 1000000060}

Fragments ==
    { <<"abcdef1234567890 1 1 1", "author Jane Doe", "author-time 1000000000", "\tcode">>,
      <<"abcdef1234567890 2 2", "\tcode">>,
      <<"abcdef1234567890 3 3", "author Eve", "author-time 999990000", "\tcode">>,
      <<ZeroHash \o " 4 4 1", "author Not Committed Yet", "author-time 1000000000", "\tcode">>,
      <<ZeroHash \o " 5 5", "\tcode">>,
      <<"abc 6 6 1", "author Bob", "author-time 999999000", "summary add 3 tests", "\tcode">>,
      <<"abc 1", "author Mal", "\tcode">>,
      <<"abc 1 x 1", "summary add 3 tests", "\tcode">>,
      <<"abcdef 7", "\tx = 1 2">>,
      <<"fedcba9876543210 8 8 1">>,
      <<"author ">>,
      <<"author-time soon">>,
      <<"\tcode">> }

RECURSIVE Concat(_)
Concat(fs) == IF fs = << >> THEN << >> ELSE Head(fs) \o Concat(Tail(fs))

Texts == { Concat(fs) : fs \in UNION { [1..n -> Fragments] : n \in 0..MaxFrags } }

(***************************************************************************)
(* The file system and the external command, as get_blame sees them.       *)
(* A path is a string; an absolute path is its sequence of components.     *)
(***************************************************************************)

\* the path strings callers pass: two spellings of one file, and a missing file
Paths == {"a.rs", "./a.rs", "gone.rs"}

\* the line numbers callers ask for
LineNumbers == {1, 2}

\* the working directory of the process
Cwd == <<"repo">>

\* the files and directories that exist
Files == { <<"repo", "a.rs">> }

Dirs == { << >>, <<"repo">>, <<"repo", ".git">> }

RECURSIVE SplitPath(_, _, _, _)
SplitPath(s, k, cur, acc) ==
    IF k > Len(s)
    THEN IF cur = "" THEN acc ELSE Append(acc, cur)
    ELSE LET c == SubSeq(s, k, k)
         IN IF c = "/"
            THEN SplitPath(s, k + 1, "", IF cur = "" THEN acc ELSE Append(acc, cur))
            ELSE SplitPath(s, k + 1, cur \o c, acc)

RECURSIVE Normalize(_, _)
Normalize(comps, acc) ==
    IF comps = << >> THEN acc
    ELSE IF Head(comps) = "." THEN Normalize(Tail(comps), acc)
    ELSE IF Head(comps) = ".."
    THEN Normalize(Tail(comps),
                   IF acc = << >> THEN acc ELSE SubSeq(acc, 1, Len(acc) - 1))
    ELSE Normalize(Tail(comps), Append(acc, Head(comps)))

\* line 60: Path::canonicalize (no symbolic links in this file system)
canonicalize(p) ==
    LET abs == Normalize(SplitPath(p, 1, "", << >>),
                         IF StartsWith(p, "/") THEN << >> ELSE Cwd)
    IN IF abs \in Files \cup Dirs
       THEN [ok |-> TRUE, path |-> abs]
       ELSE [ok |-> FALSE, path |-> << >>]

\* what `git blame --porcelain` prints for a file when it exits with status 0
Stdout(abs_path) ==
    { <<"abcdef1234567890 1 1 1", "author Jane Doe", "author-time 1000000000", "\tcode">> }

(***************************************************************************)
(* State.                                                                  *)
(*  lines, i, result, commit_cache: one run of parse_git_blame_porcelain;  *)
(*  ppc is its position ("loop" at the head of the while loop, "done"      *)
(*  after the return); emitted is a history variable, one entry per        *)
(*  result.insert, in order.                                               *)
(*  cache: BlameCache.cache, path string -> (line number -> BlameInfo);    *)
(*  lock: the holder of the Mutex (Free when nobody holds it);             *)
(*  pc, file_path, line_number, stdout, blame_map, ret: each thread's      *)
(*  position in get_blame / fetch_file_blame and its locals;               *)
(*  outcome: how the thread's current call went (history);                 *)
(*  invocations: per path string, how often cmd.output() was called;       *)
(*  calls: how many get_blame calls were started.                          *)
(*  iterations: how many iterations the parser's outer loop ran (history). *)
(*  path .. lpc: one run of find_git_dir and of the command construction   *)
(*  of fetch_file_blame;  fn, args, output, fpc: one call of a formatting  *)
(*  function.  Both are described where their actions are defined.         *)
(***************************************************************************)
VARIABLES lines, i, result, commit_cache, ppc, emitted, iterations,
          cache, lock, pc, file_path, line_number, stdout, blame_map, ret,
          outcome, invocations, calls,
          path, is_file, git_dirs, current, steps, git_dir, working_dir,
          blame_path, lpc,
          fn, args, output, fpc

parseVars == <<lines, i, result, commit_cache, ppc, emitted, iterations>>

cacheVars == <<cache, lock, pc, file_path, line_number, stdout, blame_map, ret,
               outcome, invocations, calls>>

\* find_git_dir and the command of fetch_file_blame (lines 70-93, 250-267)
locateVars == <<path, is_file, git_dirs, current, steps, git_dir, working_dir,
                blame_path, lpc>>

\* one call of a formatting function (lines 132-158, 270-295)
formatVars == <<fn, args, output, fpc>>

vars == <<lines, i, result, commit_cache, ppc, emitted, iterations,
          cache, lock, pc, file_path, line_number, stdout, blame_map, ret,
          outcome, invocations, calls,
          path, is_file, git_dirs, current, steps, git_dir, working_dir,
          blame_path, lpc,
          fn, args, output, fpc>>

NumThreads == 2

MaxCalls == 2

Threads == 1..NumThreads

Free == 0

\* Option<T>
None == << >>

Some(x) == <<x>>

ScanState == [i |-> i, result |-> result, commit_cache |-> commit_cache]

ParseInit ==
    /\ lines \in Texts
    /\ i = ParseStart.i
    /\ result = ParseStart.result
    /\ commit_cache = ParseStart.commit_cache
    /\ ppc = "loop"
    /\ emitted = << >>
    /\ iterations = 0

\* the scan moves to the state st
ScanTo(st) ==
    /\ i' = st.i
    /\ result' = st.result
    /\ commit_cache' = st.commit_cache

\* the history entry of the record with header h at the cursor
Emission(h, res) ==
    [at     |-> i,
     commit |-> h.commit_hash,
     final  |-> h.final_line,
     seen   |-> h.commit_hash \in DOMAIN commit_cache,
     next   |-> i',
     info   |-> res[h.final_line]]

\* lines 173-176, 180-186: the line at the cursor is not a header
ParseSkipLine ==
    /\ ppc = "loop"
    /\ i < Len(lines)
    /\ ~Header(LineAt(lines, i)).ok
    /\ ScanTo(SkipLine(ScanState))
    /\ iterations' = iterations + 1
    /\ UNCHANGED <<lines, ppc, emitted>>
    /\ UNCHANGED <<cacheVars, locateVars, formatVars>>

\* lines 178-242 for a commit that is in commit_cache
ParseCachedRecord ==
    /\ ppc = "loop"
    /\ i < Len(lines)
    /\ LET h == Header(LineAt(lines, i))
       IN /\ h.ok
          /\ h.commit_hash \in DOMAIN commit_cache
          /\ \E now \in NowValues : ScanTo(ParseRecord(lines, ScanState, h, now))
          /\ emitted' = Append(emitted, Emission(h, result'))
    /\ iterations' = iterations + 1
    /\ UNCHANGED <<lines, ppc>>
    /\ UNCHANGED <<cacheVars, locateVars, formatVars>>

\* lines 178-242 for a commit that is not in commit_cache
ParseNewRecord ==
    /\ ppc = "loop"
    /\ i < Len(lines)
    /\ LET h == Header(LineAt(lines, i))
       IN /\ h.ok
          /\ h.commit_hash \notin DOMAIN commit_cache
          /\ \E now \in NowValues : ScanTo(ParseRecord(lines, ScanState, h, now))
          /\ emitted' = Append(emitted, Emission(h, result'))
    /\ iterations' = iterations + 1
    /\ UNCHANGED <<lines, ppc>>
    /\ UNCHANGED <<cacheVars, locateVars, formatVars>>

\* lines 168, 245: the loop ends and the table is returned
ParseReturn ==
    /\ ppc = "loop"
    /\ ~(i < Len(lines))
    /\ ppc' = "done"
    /\ UNCHANGED <<lines, i, result, commit_cache, emitted, iterations>>
    /\ UNCHANGED <<cacheVars, locateVars, formatVars>>



ParseNext == ParseSkipLine \/ ParseCachedRecord \/ ParseNewRecord \/ ParseReturn

(***************************************************************************)
(* BlameCache.  Each thread runs get_blame; a step is one lock             *)
(* acquisition, one critical section (which ends by dropping the guard),   *)
(* or one unlocked computation.                                            *)
(***************************************************************************)

RECURSIVE JoinPath(_)
JoinPath(comps) == IF comps = << >> THEN "" ELSE "/" \o Head(comps) \o JoinPath(Tail(comps))

\* a cache keyed by the canonical path instead of the caller's spelling
CacheKeyCanonical(p) ==
    IF canonicalize(p).ok THEN JoinPath(canonicalize(p).path) ELSE p

\* lines 35 and 57: the key is the path as the caller spelled it
CacheKey(p) == p

\* a cache check that never finds the entry
CacheHitNever(c, key) == FALSE

\* line 40: cache.get(&path_str) is Some
CacheHit(c, key) == key \in DOMAIN c

\* a lookup that takes line n from whichever table has it
LookupAnyKey(c, key, n) ==
    IF \E k \in DOMAIN c : n \in DOMAIN c[k]
    THEN Some(c[CHOOSE k \in DOMAIN c : n \in DOMAIN c[k]][n])
    ELSE None

\* lines 41 and 50-52: the entry of line n in the table stored under key
Lookup(c, key, n) ==
    IF key \in DOMAIN c /\ n \in DOMAIN c[key] THEN Some(c[key][n]) ELSE None

\* an insert that keeps the entry already stored (entry().or_insert)
CacheInsertIfAbsent(c, key, table) ==
    IF key \in DOMAIN c THEN c ELSE MapInsert(c, key, table)

\* lines 65, 102, 111: cache.insert(path_str, table)
CacheInsert(c, key, table) == MapInsert(c, key, table)

\* a guard of the insert that lives on into the second lookup
LockKeptAfterInsert(t) == t

\* lines 110-112: the guard of the insert is dropped when fetch_file_blame returns
LockAfterInsert(t) == Free

\* a guard of the cache check that lives on into fetch_file_blame
LockKeptAfterMiss(t) == t

\* line 43: the guard of the cache check goes out of scope on a miss
LockAfterMiss(t) == Free

\* BlameCache::new (lines 22-26) and no call under way
CacheInit ==
    /\ cache = EmptyMap
    /\ lock = Free
    /\ pc = [t \in Threads |-> "idle"]
    /\ file_path = [t \in Threads |-> ""]
    /\ line_number = [t \in Threads |-> 0]
    /\ stdout = [t \in Threads |-> << >>]
    /\ blame_map = [t \in Threads |-> EmptyMap]
    /\ ret = [t \in Threads |-> None]
    /\ outcome = [t \in Threads |-> "none"]
    /\ invocations = [p \in Paths |-> 0]
    /\ calls = 0

\* lines 30-35: thread t calls get_blame(p, n)
Call(t, p, n) ==
    /\ pc[t] \in {"idle", "done"}
    /\ calls < MaxCalls
    /\ calls' = calls + 1
    /\ pc' = [pc EXCEPT ![t] = "lock_check"]
    /\ file_path' = [file_path EXCEPT ![t] = p]
    /\ line_number' = [line_number EXCEPT ![t] = n]
    /\ ret' = [ret EXCEPT ![t] = None]
    /\ outcome' = [outcome EXCEPT ![t] = "none"]
    /\ UNCHANGED <<cache, lock, stdout, blame_map, invocations>>
    /\ UNCHANGED <<parseVars, locateVars, formatVars>>

\* line 39: self.cache.lock() for the cache check
LockForCheck(t) ==
    /\ pc[t] = "lock_check"
    /\ lock = Free
    /\ lock' = t
    /\ pc' = [pc EXCEPT ![t] = "check"]
    /\ UNCHANGED <<cache, file_path, line_number, stdout, blame_map, ret, outcome,
                   invocations, calls>>
    /\ UNCHANGED <<parseVars, locateVars, formatVars>>

\* lines 40-43: the cache check, under the lock
CheckCache(t) ==
    /\ pc[t] = "check"
    /\ lock = t
    /\ IF CacheHit(cache, CacheKey(file_path[t]))
       THEN /\ ret' = [ret EXCEPT ![t] =
                          Lookup(cache, CacheKey(file_path[t]), line_number[t])]
            /\ outcome' = [outcome EXCEPT ![t] = "hit"]
            /\ pc' = [pc EXCEPT ![t] = "done"]
            /\ lock' = Free
       ELSE /\ pc' = [pc EXCEPT ![t] = "canonicalize"]
            /\ lock' = LockAfterMiss(t)
            /\ UNCHANGED <<ret, outcome>>
    /\ UNCHANGED <<cache, file_path, line_number, stdout, blame_map, invocations, calls>>
    /\ UNCHANGED <<parseVars, locateVars, formatVars>>

\* lines 60-93: canonicalize the path and build the command
Canonicalize(t) ==
    /\ pc[t] = "canonicalize"
    /\ IF canonicalize(file_path[t]).ok
       THEN /\ pc' = [pc EXCEPT ![t] = "spawn"]
            /\ UNCHANGED <<blame_map, outcome>>
       ELSE /\ blame_map' = [blame_map EXCEPT ![t] = EmptyMap]
            /\ outcome' = [outcome EXCEPT ![t] = "canon_err"]
            /\ pc' = [pc EXCEPT ![t] = "lock_insert"]
    /\ UNCHANGED <<cache, lock, file_path, line_number, stdout, ret, invocations, calls>>
    /\ UNCHANGED <<parseVars, locateVars, formatVars>>

\* line 96: cmd.output() starts the command, or fails to
Spawn(t) ==
    /\ pc[t] = "spawn"
    /\ invocations' = [invocations EXCEPT ![file_path[t]] = @ + 1]
    /\ \/ /\ pc' = [pc EXCEPT ![t] = "wait"]
          /\ UNCHANGED <<blame_map, outcome>>
       \/ /\ blame_map' = [blame_map EXCEPT ![t] = EmptyMap]
          /\ outcome' = [outcome EXCEPT ![t] = "cmd_err"]
          /\ pc' = [pc EXCEPT ![t] = "lock_insert"]
    /\ UNCHANGED <<cache, lock, file_path, line_number, stdout, ret, calls>>
    /\ UNCHANGED <<parseVars, locateVars, formatVars>>

\* lines 96-105: the command ends, with status 0 and its output or with a failure
Wait(t) ==
    /\ pc[t] = "wait"
    /\ \/ /\ \E out \in Stdout(canonicalize(file_path[t]).path) :
                stdout' = [stdout EXCEPT ![t] = out]
          /\ pc' = [pc EXCEPT ![t] = "parse"]
          /\ UNCHANGED <<blame_map, outcome>>
       \/ /\ blame_map' = [blame_map EXCEPT ![t] = EmptyMap]
          /\ outcome' = [outcome EXCEPT ![t] = "cmd_err"]
          /\ pc' = [pc EXCEPT ![t] = "lock_insert"]
          /\ UNCHANGED stdout
    /\ UNCHANGED <<cache, lock, file_path, line_number, ret, invocations, calls>>
    /\ UNCHANGED <<parseVars, locateVars, formatVars>>

\* lines 107-108: parse the output
Parse(t) ==
    /\ pc[t] = "parse"
    /\ \E now \in NowValues :
          blame_map' = [blame_map EXCEPT ![t] = parse_git_blame_porcelain(stdout[t], now)]
    /\ stdout' = [stdout EXCEPT ![t] = << >>]
    /\ outcome' = [outcome EXCEPT ![t] = "ok"]
    /\ pc' = [pc EXCEPT ![t] = "lock_insert"]
    /\ UNCHANGED <<cache, lock, file_path, line_number, ret, invocations, calls>>
    /\ UNCHANGED <<parseVars, locateVars, formatVars>>

\* lines 64, 101, 110: self.cache.lock() for the insert
LockForInsert(t) ==
    /\ pc[t] = "lock_insert"
    /\ lock = Free
    /\ lock' = t
    /\ pc' = [pc EXCEPT ![t] = "insert"]
    /\ UNCHANGED <<cache, file_path, line_number, stdout, blame_map, ret, outcome,
                   invocations, calls>>
    /\ UNCHANGED <<parseVars, locateVars, formatVars>>

\* lines 65-66, 102-103, 111-112: insert the table (which moves it into the
\* cache) and drop the guard
Insert(t) ==
    /\ pc[t] = "insert"
    /\ lock = t
    /\ cache' = CacheInsert(cache, CacheKey(file_path[t]), blame_map[t])
    /\ blame_map' = [blame_map EXCEPT ![t] = EmptyMap]
    /\ lock' = LockAfterInsert(t)
    /\ pc' = [pc EXCEPT ![t] = "lock_final"]
    /\ UNCHANGED <<file_path, line_number, stdout, ret, outcome, invocations, calls>>
    /\ UNCHANGED <<parseVars, locateVars, formatVars>>

\* line 49: self.cache.lock() for the second lookup
LockForFinal(t) ==
    /\ pc[t] = "lock_final"
    /\ lock = Free
    /\ lock' = t
    /\ pc' = [pc EXCEPT ![t] = "final"]
    /\ UNCHANGED <<cache, file_path, line_number, stdout, blame_map, ret, outcome,
                   invocations, calls>>
    /\ UNCHANGED <<parseVars, locateVars, formatVars>>

\* lines 50-53: the second lookup; the guard is dropped on return
Final(t) ==
    /\ pc[t] = "final"
    /\ lock = t
    /\ ret' = [ret EXCEPT ![t] = Lookup(cache, CacheKey(file_path[t]), line_number[t])]
    /\ lock' = Free
    /\ pc' = [pc EXCEPT ![t] = "done"]
    /\ UNCHANGED <<cache, file_path, line_number, stdout, blame_map, outcome,
                   invocations, calls>>
    /\ UNCHANGED <<parseVars, locateVars, formatVars>>



CacheNext ==
    \E t \in Threads :
        \/ \E p \in Paths, n \in LineNumbers : Call(t, p, n)
        \/ LockForCheck(t)
        \/ CheckCache(t)
        \/ Canonicalize(t)
        \/ Spawn(t)
        \/ Wait(t)
        \/ Parse(t)
        \/ LockForInsert(t)
        \/ Insert(t)
        \/ LockForFinal(t)
        \/ Final(t)

\* no parse is under way
ParseIdle ==
    /\ lines = << >>
    /\ i = ParseStart.i
    /\ result = ParseStart.result
    /\ commit_cache = ParseStart.commit_cache
    /\ ppc = "done"
    /\ emitted = << >>
    /\ iterations = 0

(***************************************************************************)
(* find_git_dir and the command fetch_file_blame builds.  An absolute      *)
(* path is the sequence of its components; the file system is given by     *)
(* is_file (whether path is a regular file) and git_dirs (the directories  *)
(* that have an entry named ".git").  current, steps and git_dir are the   *)
(* cursor of find_git_dir's loop, the number of its iterations (history)   *)
(* and its result; working_dir and blame_path are the command's current    *)
(* directory and its argument after "--".                                  *)
(***************************************************************************)

\* the deepest directory of the trees that are tried
MaxDepth == 3

\* the directory /d1/d2/.../dn
Chain(n) == [k \in 1..n |-> "d" \o Display(k)]

FileName == "f.rs"

\* a directory that is no ancestor of the path
Elsewhere == <<"x">>

Prefixes(p) == { SubSeq(p, 1, k) : k \in 0..Len(p) }

\* line 265: Path::parent; the root has none
Parent(p) == IF p = << >> THEN None ELSE Some(SubSeq(p, 1, Len(p) - 1))

\* a search that starts above the path whatever the path is
StartDirAlwaysParent(p, isf) == Parent(p)

\* lines 251-256: the directory the search starts in
StartDir(p, isf) == IF isf THEN Parent(p) ELSE Some(p)

\* lines 259-260: current.join(".git").exists()
HasGit(dir, gds) == dir \in gds

\* Path::strip_prefix: the path relative to base
strip_prefix(p, base) ==
    IF Len(base) <= Len(p) /\ SubSeq(p, 1, Len(base)) = base
    THEN Some([absolute |-> FALSE, comps |-> SubSeq(p, Len(base) + 1, Len(p))])
    ELSE None

\* lines 74-81: the working directory and the path argument of the command
CommandTarget(p, gd) ==
    IF gd # None
    THEN [working_dir |-> Some(gd[1]),
          blame_path  |-> IF strip_prefix(p, gd[1]) # None
                          THEN strip_prefix(p, gd[1])[1]
                          ELSE [absolute |-> TRUE, comps |-> p]]
    ELSE [working_dir |-> Parent(p),
          blame_path  |-> [absolute |-> TRUE, comps |-> p]]

LocateInit ==
    /\ \E n \in 0..MaxDepth :
          /\ is_file \in BOOLEAN
          /\ path = IF is_file THEN Append(Chain(n), FileName) ELSE Chain(n)
          /\ git_dirs \in SUBSET (Prefixes(Chain(n)) \cup {Elsewhere})
    /\ current = << >>
    /\ steps = 0
    /\ git_dir = None
    /\ working_dir = None
    /\ blame_path = None
    /\ lpc = "start"

\* no search is under way
LocateIdle ==
    /\ path = << >>
    /\ is_file = FALSE
    /\ git_dirs = {}
    /\ current = << >>
    /\ steps = 0
    /\ git_dir = None
    /\ working_dir = None
    /\ blame_path = None
    /\ lpc = "done"

\* lines 251-256: find_git_dir starts at the path or at its parent
FindStart ==
    /\ lpc = "start"
    /\ IF StartDir(path, is_file) # None
       THEN /\ current' = StartDir(path, is_file)[1]
            /\ lpc' = "loop"
       ELSE /\ current' = current
            /\ lpc' = "build"
    /\ UNCHANGED <<path, is_file, git_dirs, steps, git_dir, working_dir, blame_path>>
    /\ UNCHANGED <<parseVars, cacheVars, formatVars>>

\* lines 258-262: the directory at the cursor has the marker
FindFound ==
    /\ lpc = "loop"
    /\ HasGit(current, git_dirs)
    /\ git_dir' = Some(current)
    /\ steps' = steps + 1
    /\ lpc' = "build"
    /\ UNCHANGED <<path, is_file, git_dirs, current, working_dir, blame_path>>
    /\ UNCHANGED <<parseVars, cacheVars, formatVars>>

\* lines 258-265: no marker here, go on in the parent
FindUp ==
    /\ lpc = "loop"
    /\ ~HasGit(current, git_dirs)
    /\ Parent(current) # None
    /\ current' = Parent(current)[1]
    /\ steps' = steps + 1
    /\ UNCHANGED <<path, is_file, git_dirs, git_dir, working_dir, blame_path, lpc>>
    /\ UNCHANGED <<parseVars, cacheVars, formatVars>>

\* lines 258-265: no marker in the root, which has no parent: None
FindNone ==
    /\ lpc = "loop"
    /\ ~HasGit(current, git_dirs)
    /\ Parent(current) = None
    /\ git_dir' = None
    /\ steps' = steps + 1
    /\ lpc' = "build"
    /\ UNCHANGED <<path, is_file, git_dirs, current, working_dir, blame_path>>
    /\ UNCHANGED <<parseVars, cacheVars, formatVars>>

\* lines 71-93: the command is built from the result of find_git_dir
BuildCommand ==
    /\ lpc = "build"
    /\ working_dir' = CommandTarget(path, git_dir).working_dir
    /\ blame_path' = Some(CommandTarget(path, git_dir).blame_path)
    /\ lpc' = "done"
    /\ UNCHANGED <<path, is_file, git_dirs, current, steps, git_dir>>
    /\ UNCHANGED <<parseVars, cacheVars, formatVars>>

LocateNext == FindStart \/ FindFound \/ FindUp \/ FindNone \/ BuildCommand

(***************************************************************************)
(* BlameInfo::format, BlameInfo::format_fixed_width, truncate_str and      *)
(* format_timestamp as single calls.  A string is a sequence of            *)
(* characters; str::len and the slices &s[..n] count bytes of the UTF-8    *)
(* encoding, the padding of format! counts characters.  A slice whose end  *)
(* is not a character boundary panics.                                     *)
(***************************************************************************)

\* the characters of the inputs that take two bytes in UTF-8
TwoByteChars == {"é", "ü"}

ByteLen(c) == IF c \in TwoByteChars THEN 2 ELSE 1

\* str::len: the length in bytes
RECURSIVE StrLen(_)
StrLen(s) == IF s = "" THEN 0 ELSE ByteLen(Head(s)) + StrLen(Tail(s))

Returned(s) == [ok |-> TRUE, val |-> s]

Panicked == [ok |-> FALSE, val |-> ""]

\* &s[..n]
ByteSlice(s, n) ==
    LET ks == { k \in 0..Len(s) : StrLen(SubSeq(s, 1, k)) = n }
    IN IF ks = {} THEN Panicked
       ELSE Returned(SubSeq(s, 1, CHOOSE k \in ks : TRUE))

RECURSIVE Spaces(_)
Spaces(n) == IF n <= 0 THEN "" ELSE " " \o Spaces(n - 1)

\* format!("{:<width$}", s)
PadRight(s, width) == s \o Spaces(width - Len(s))

\* usize::saturating_sub
saturating_sub(a, b) == IF a >= b THEN a - b ELSE 0

\* lines 152-158
truncate_str(s, max_len) ==
    IF StrLen(s) <= max_len
    THEN Returned(PadRight(s, max_len))
    ELSE LET cut == ByteSlice(s, saturating_sub(max_len, 3))
         IN IF cut.ok THEN Returned(cut.val \o "...") ELSE Panicked

\* lines 135-137
format(info) ==
    Returned(info.commit_hash \o " " \o info.author \o " " \o info.timestamp)

\* a fixed-width rendering that appends the time as it is stored
format_fixed_width_time_as_stored(info) ==
    LET n == IF StrLen(info.commit_hash) < 8 THEN StrLen(info.commit_hash) ELSE 8
        c == ByteSlice(info.commit_hash, n)
        a == truncate_str(info.author, 15)
    IN IF ~c.ok \/ ~a.ok THEN Panicked
       ELSE Returned(PadRight(c.val, 8) \o " " \o PadRight(a.val, 15) \o " "
                     \o info.timestamp)

\* lines 141-148
format_fixed_width(info) ==
    LET n == IF StrLen(info.commit_hash) < 8 THEN StrLen(info.commit_hash) ELSE 8
        c == ByteSlice(info.commit_hash, n)
        a == truncate_str(info.author, 15)
    IN IF ~c.ok \/ ~a.ok THEN Panicked
       ELSE Returned(PadRight(c.val, 8) \o " " \o PadRight(a.val, 15) \o " "
                     \o PadRight(info.timestamp, 10))

\* the longest run of one-byte and of two-byte characters in a generated string
MaxRun == 9

\* the widest column truncate_str is asked for
MaxWidth == 15

\* how many units past a threshold, and how far around it, elapsed times go
MaxMult == 2

MaxSlack == 1

RECURSIVE Rep(_, _)
Rep(c, n) == IF n <= 0 THEN "" ELSE c \o Rep(c, n - 1)

\* the strings of the tests (lines 307-321) and runs of one-byte characters
\* followed by runs of two-byte characters
Names ==
    {"short", "this is a very long string", "John Doe"}
    \cup { Rep("a", k) \o Rep("é", j) : k \in 0..MaxRun, j \in 0..MaxRun }

Widths == 0..MaxWidth

CommitHashes == {"", "abc123", "abc12345", "abcdef1234567890"}

TimeStrings == {"", "2d ago", "11mo ago", "-1000000000s ago"}

Records ==
    [commit_hash : CommitHashes, author : Names, timestamp : TimeStrings]

\* lines 275-292: the sizes of the units in seconds
UnitSizes == {1, 60, 3600, 86400, 604800, 2592000, 31536000}

\* elapsed times at, below and above the multiples of the units, past and future
ElapsedValues ==
    { sign * (k * u + e) : sign \in {1, -1}, k \in 0..MaxMult, u \in UnitSizes,
                           e \in (0 - MaxSlack)..MaxSlack }

FormatInit ==
    /\ fn \in {"format_timestamp", "truncate_str", "format_fixed_width", "format"}
    /\ args \in CASE fn = "format_timestamp" ->
                       { [timestamp_secs |-> now - d, now |-> now] :
                           now \in NowValues, d \in ElapsedValues }
                  [] fn = "truncate_str" -> [s : Names, max_len : Widths]
                  [] OTHER -> Records
    /\ output = None
    /\ fpc = "call"

\* no call is under way
FormatIdle ==
    /\ fn = ""
    /\ args = << >>
    /\ output = None
    /\ fpc = "done"

\* lines 270-295
CallFormatTimestamp ==
    /\ fpc = "call"
    /\ fn = "format_timestamp"
    /\ output' = Returned(format_timestamp(args.timestamp_secs, args.now))
    /\ fpc' = "done"
    /\ UNCHANGED <<fn, args>>
    /\ UNCHANGED <<parseVars, cacheVars, locateVars>>

\* lines 152-158
CallTruncateStr ==
    /\ fpc = "call"
    /\ fn = "truncate_str"
    /\ output' = truncate_str(args.s, args.max_len)
    /\ fpc' = "done"
    /\ UNCHANGED <<fn, args>>
    /\ UNCHANGED <<parseVars, cacheVars, locateVars>>

\* lines 141-148
CallFormatFixedWidth ==
    /\ fpc = "call"
    /\ fn = "format_fixed_width"
    /\ output' = format_fixed_width(args)
    /\ fpc' = "done"
    /\ UNCHANGED <<fn, args>>
    /\ UNCHANGED <<parseVars, cacheVars, locateVars>>

\* lines 135-137
CallFormat ==
    /\ fpc = "call"
    /\ fn = "format"
    /\ output' = format(args)
    /\ fpc' = "done"
    /\ UNCHANGED <<fn, args>>
    /\ UNCHANGED <<parseVars, cacheVars, locateVars>>

FormatNext == CallFormatTimestamp \/ CallTruncateStr \/ CallFormatFixedWidth \/ CallFormat

(***************************************************************************)
(* Specifications.  Spec: threads calling get_blame on one BlameCache.     *)
(* SpecParse: one run of parse_git_blame_porcelain on a text of Texts.     *)
(* SpecLocate: one run of find_git_dir and of the command construction.    *)
(* SpecFormat: one call of a formatting function.  SpecFair: Spec under a  *)
(* fair scheduler.                                                         *)
(***************************************************************************)
Init == CacheInit /\ ParseIdle /\ LocateIdle /\ FormatIdle

Next == CacheNext

Spec == Init /\ [][Next]_vars

InitParse == ParseInit /\ CacheInit /\ LocateIdle /\ FormatIdle

NextParse == ParseNext

\* a step of thread t inside a call it has started, the parse apart
ThreadStep(t) ==
    \/ LockForCheck(t)
    \/ CheckCache(t)
    \/ Canonicalize(t)
    \/ Spawn(t)
    \/ Wait(t)
    \/ LockForInsert(t)
    \/ Insert(t)
    \/ LockForFinal(t)
    \/ Final(t)

\* Spec under a fair scheduler: a thread that can take a step of its call
\* takes one, and a started command ends (Wait).  Parse(t) is enabled exactly
\* when pc[t] = "parse" and every Parse(t) step leaves that position, so weak
\* fairness of Parse(t) is written as []<>(pc[t] # "parse").
SpecFair ==
    /\ Init
    /\ [][Next]_vars
    /\ \A t \in Threads : WF_vars(ThreadStep(t)) /\ []<>(pc[t] # "parse")

SpecParse == InitParse /\ [][NextParse]_vars

InitLocate == LocateInit /\ CacheInit /\ ParseIdle /\ FormatIdle

NextLocate == LocateNext

SpecLocate == InitLocate /\ [][NextLocate]_vars

InitFormat == FormatInit /\ CacheInit /\ ParseIdle /\ LocateIdle

NextFormat == FormatNext

SpecFormat == InitFormat /\ [][NextFormat]_vars

(***************************************************************************)
(* Properties of BlameCache, checked under Spec.                           *)
(***************************************************************************)

\* thread t has missed path string p and has not yet inserted its table
Fetching(p) ==
    \E t \in Threads :
        /\ file_path[t] = p
        /\ pc[t] \in {"canonicalize", "spawn", "wait", "parse", "lock_insert", "insert"}

\* get_blame(p, n) would return the same for every n before and after the step
SameResults(p) ==
    \A n \in LineNumbers : Lookup(cache', CacheKey(p), n) = Lookup(cache, CacheKey(p), n)

\* C1 as stated: in every interleaving, once the cache holds an entry for p
\* there is no further invocation of the command for p and get_blame(p, n)
\* keeps returning the same result for the same n.
C1_OnceCachedNoInvocation ==
    [][\A p \in Paths :
          p \in DOMAIN cache => invocations'[p] = invocations[p] /\ SameResults(p)]_vars

\* C1 amended: once the cache holds an entry for p and no call that missed p
\* is still fetching, no call starts fetching p again, the command is not
\* invoked for p and get_blame(p, n) keeps returning the same result for the
\* same n; every call that returns on the hit path returns the stored entry.
C1_QuiescentNoInvocation ==
    [][/\ \A p \in Paths :
             (p \in DOMAIN cache /\ ~Fetching(p))
                => /\ invocations'[p] = invocations[p]
                   /\ SameResults(p)
                   /\ ~Fetching(p)'
       /\ \A t \in Threads :
             (pc[t] = "check" /\ pc'[t] = "done")
                => ret'[t] = Lookup(cache, file_path[t], line_number[t])]_vars

\* C1 witness: a call was served from the cache while nobody was fetching
C1_Witness ==
    \E t \in Threads :
        /\ pc[t] = "done"
        /\ outcome[t] = "hit"
        /\ ret[t] # None
        /\ ~Fetching(file_path[t])
        /\ invocations[file_path[t]] = 1

\* C2 as stated: a table is immutable once stored: after cache[p] has been
\* set to T, cache[p] stays T (an empty table stays empty).
C2_TableImmutable ==
    [][\A p \in Paths :
          p \in DOMAIN cache => (p \in DOMAIN cache' /\ cache'[p] = cache[p])]_vars

\* C3: a thread holds the cache lock only in the cache check, the insert and
\* the second lookup; never while it canonicalizes, runs the command or parses.
C3_LockOnlyAroundTable ==
    \A t \in Threads :
        /\ lock = t => pc[t] \in {"check", "insert", "final"}
        /\ pc[t] \in {"canonicalize", "spawn", "wait", "parse"} => lock # t

\* C3 witness: one thread waits for its command while another holds the lock
C3_Witness ==
    \E t, u \in Threads : t # u /\ pc[t] = "wait" /\ lock = u

\* C4 as stated: when a call returns, the cache has an entry for its path; if
\* the fetch failed, that entry is the empty table and the call returned absent.
C4_FailureLeavesEmpty ==
    \A t \in Threads :
        pc[t] = "done"
           => /\ file_path[t] \in DOMAIN cache
              /\ outcome[t] \in {"canon_err", "cmd_err"}
                    => cache[file_path[t]] = EmptyMap /\ ret[t] = None

\* C5: every insert overwrites: after a thread's insert the cache holds that
\* thread's table under its path, whatever was stored before, and the cache
\* changes in no other step; so the table left is the last committer's.
C5_LastCommitWins ==
    [][/\ \A t \in Threads :
             (pc[t] = "insert" /\ pc'[t] # "insert")
                => cache'[file_path[t]] = blame_map[t]
       /\ cache' # cache => \E t \in Threads : pc[t] = "insert" /\ pc'[t] # "insert"]_vars

\* C5 witness: two invocations for the same path string are in flight
C5_Witness ==
    \E t, u \in Threads :
        /\ t # u
        /\ file_path[t] = file_path[u]
        /\ pc[t] = "wait"
        /\ pc[u] = "wait"
        /\ invocations[file_path[t]] = 2

\* C6: a call changes the cache only under the literal path string it was
\* given: no key is removed, no other key's table changes; every key is a path
\* string as a caller spelled it, and every entry of a path that resolves to a
\* file was populated after an invocation of its own.
C6_OnlyOwnKey ==
    /\ [][/\ DOMAIN cache \subseteq DOMAIN cache'
          /\ \A k \in DOMAIN cache' :
                (k \notin DOMAIN cache \/ cache'[k] # cache[k])
                   => \E t \in Threads :
                         pc[t] = "insert" /\ pc'[t] # "insert" /\ file_path[t] = k]_vars
    /\ [](\A p \in DOMAIN cache :
             p \in Paths /\ (canonicalize(p).ok => invocations[p] >= 1))

\* C6 witness: two spellings of one file, each with its entry and its invocation
C6_Witness ==
    \E p, q \in DOMAIN cache :
        /\ p # q
        /\ canonicalize(p).ok
        /\ canonicalize(p) = canonicalize(q)
        /\ invocations[p] >= 1
        /\ invocations[q] >= 1

(***************************************************************************)
(* Properties of parse_git_blame_porcelain, checked under SpecParse.       *)
(* The reading of a well-formed text below is independent of the scanner:  *)
(* a text is cut into records at its tab-prefixed lines.                   *)
(***************************************************************************)

IsTabLine(l) == StartsWith(l, "\t")

\* the index (1-based) of the first tab-prefixed line of text at or after k; 0 if none
NextTab(text, k) ==
    LET S == { j \in k..Len(text) : IsTabLine(text[j]) }
    IN IF S = {} THEN 0 ELSE CHOOSE j \in S : \A m \in S : j <= m

\* '<commit> <orig> <final> ...'
WfHeader(l) ==
    LET parts == split_whitespace(l)
    IN /\ ~IsTabLine(l)
       /\ Len(parts) >= 3
       /\ AllDigits(parts[2])
       /\ AllDigits(parts[3])

\* the header indices (1-based) of the records of text from line k on, when
\* text is cut after each tab-prefixed line
RECURSIVE RecordStarts(_, _)
RecordStarts(text, k) ==
    IF k > Len(text) \/ NextTab(text, k + 1) = 0 THEN {}
    ELSE {k} \cup RecordStarts(text, NextTab(text, k + 1) + 1)

RecCommit(text, h) == split_whitespace(text[h])[1]

RecFinal(text, h) == DigitsValue(split_whitespace(text[h])[3], 0)

\* the metadata lines of the record with header h that start with prefix
MetaLines(text, h, prefix) ==
    { m \in (h + 1)..(NextTab(text, h + 1) - 1) : StartsWith(text[m], prefix) }

\* the first record of text with the commit of record h
FirstOf(text, h) ==
    CHOOSE f \in RecordStarts(text, 1) :
        /\ RecCommit(text, f) = RecCommit(text, h)
        /\ \A g \in RecordStarts(text, 1) : RecCommit(text, g) = RecCommit(text, h) => f <= g

\* text is a sequence of records: a header, metadata lines, one tab-prefixed
\* line; the first record of each commit has one author line and one
\* author-time line with an integer
WellFormed(text) ==
    LET starts == RecordStarts(text, 1)
    IN /\ text # << >> => (starts # {} /\ IsTabLine(text[Len(text)]))
       /\ \A h \in starts : WfHeader(text[h])
       /\ \A h \in starts :
             h = FirstOf(text, h)
                => /\ Cardinality(MetaLines(text, h, "author ")) = 1
                   /\ Cardinality(MetaLines(text, h, "author-time ")) = 1
                   /\ \A m \in MetaLines(text, h, "author-time ") :
                         ParseI64(StripPrefix(text[m], "author-time ")).ok

\* the first 8 characters of the commit of record h, or all of it if shorter
First8(text, h) ==
    LET c == RecCommit(text, h)
    IN IF Len(c) <= 8 THEN c ELSE SubSeq(c, 1, 8)

\* entry e carries commit, author line and author-time line of record h
FromLines(text, h, e) ==
    LET f == FirstOf(text, h)
    IN /\ e.commit_hash = First8(text, h)
       /\ \E m \in MetaLines(text, f, "author ") :
             e.author = StripPrefix(text[m], "author ")
       /\ \E m \in MetaLines(text, f, "author-time "), now \in NowValues :
             e.timestamp =
                format_timestamp(ParseI64(StripPrefix(text[m], "author-time ")).val, now)

\* entry e is the one of an uncommitted line
IsUncommitted(text, h, e) ==
    e = [commit_hash |-> First8(text, h), author |-> "Uncommitted", timestamp |-> "now"]

\* the last record of text with final line number k
LastWithFinal(text, k) ==
    CHOOSE h \in RecordStarts(text, 1) :
        /\ RecFinal(text, h) = k
        /\ \A g \in RecordStarts(text, 1) : RecFinal(text, g) = k => g <= h

\* the keys of table are exactly the final line numbers of the records of text
KeysAreFinals(text, table) ==
    DOMAIN table = { RecFinal(text, h) : h \in RecordStarts(text, 1) }

\* C7 as stated: for every well-formed text the keys of the result are the
\* headers' final line numbers and every entry has the first 8 characters of
\* its header's commit, the author of that commit's author line and the
\* formatted time of its author-time line; the empty text gives the empty table.
C7_TableFromLines ==
    (ppc = "done" /\ WellFormed(lines))
       => /\ KeysAreFinals(lines, result)
          /\ \A k \in DOMAIN result :
                FromLines(lines, LastWithFinal(lines, k), result[k])

\* C7 amended: the same, for the records whose commit is not the all-zero
\* hash; the keys are the final line numbers of all records.
C7_TableFromLinesCommitted ==
    (ppc = "done" /\ WellFormed(lines))
       => /\ KeysAreFinals(lines, result)
          /\ \A k \in DOMAIN result :
                RecCommit(lines, LastWithFinal(lines, k)) # ZeroHash
                   => FromLines(lines, LastWithFinal(lines, k), result[k])

\* C7 witness: a well-formed text of three records and two commits, one of them
\* with a hash shorter than 8 characters, has been parsed
C7_Witness ==
    /\ ppc = "done"
    /\ WellFormed(lines)
    /\ Cardinality(DOMAIN result) = 3
    /\ \E k \in DOMAIN result : Len(result[k].commit_hash) < 8
    /\ \E k \in DOMAIN result : Len(result[k].commit_hash) = 8
    /\ \A k \in DOMAIN result : result[k].author # "Uncommitted"

\* C8: a record whose commit is in the commit table gets the author and time
\* of the first record of that commit, and the cursor moves only to the line
\* after the next tab-prefixed line: metadata lines in between change nothing.
C8_CachedCommitSkipsMetadata ==
    \A k \in 1..Len(emitted) :
        emitted[k].seen
           => /\ \E j \in 1..(k - 1) :
                    /\ ~emitted[j].seen
                    /\ emitted[j].commit = emitted[k].commit
                    /\ emitted[j].info.author = emitted[k].info.author
                    /\ emitted[j].info.timestamp = emitted[k].info.timestamp
              /\ emitted[k].next =
                    IF NextTab(lines, emitted[k].at + 2) = 0 THEN Len(lines) + 1
                    ELSE NextTab(lines, emitted[k].at + 2)

\* C8 witness: a record of a commit seen before carries an author line and an
\* author-time line of its own, with another author
C8_Witness ==
    \E k \in 1..Len(emitted) :
        /\ emitted[k].seen
        /\ emitted[k].commit # ZeroHash
        /\ \E m \in MetaLines(lines, emitted[k].at + 1, "author ") :
              StripPrefix(lines[m], "author ") # emitted[k].info.author
        /\ MetaLines(lines, emitted[k].at + 1, "author-time ") # {}

\* C9: every record emitted for the all-zero hash has author "Uncommitted" and
\* time "now", at its first occurrence and at later ones.
C9_ZeroHashUncommitted ==
    \A k \in 1..Len(emitted) :
        emitted[k].commit = ZeroHash
           => emitted[k].info =
                 [commit_hash |-> "00000000", author |-> "Uncommitted", timestamp |-> "now"]

\* C9 witness: the all-zero hash was emitted twice, first with author and
\* author-time lines after its header, then through the commit table
C9_Witness ==
    \E j, k \in 1..Len(emitted) :
        /\ j < k
        /\ emitted[j].commit = ZeroHash
        /\ emitted[k].commit = ZeroHash
        /\ ~emitted[j].seen
        /\ emitted[k].seen
        /\ MetaLines(lines, emitted[j].at + 1, "author ") # {}
        /\ MetaLines(lines, emitted[j].at + 1, "author-time ") # {}

\* the text starts with a record whose header is malformed (fewer than 3
\* tokens, or a third token that is no unsigned integer), and well-formed
\* records follow its tab-prefixed line
MalformedThenValid(text) ==
    /\ Len(text) >= 2
    /\ ~IsTabLine(text[1])
    /\ ~Header(text[1]).ok
    /\ NextTab(text, 2) # 0
    /\ NextTab(text, 2) < Len(text)
    /\ WellFormed(SubSeq(text, NextTab(text, 2) + 1, Len(text)))

\* C10 as stated: when a record with a malformed header precedes valid
\* records, nothing is emitted for the malformed record and every valid record
\* is in the table under its final line number with its commit, author and time.
C10_MalformedRecordSkipped ==
    (ppc = "done" /\ MalformedThenValid(lines))
       => LET valid == SubSeq(lines, NextTab(lines, 2) + 1, Len(lines))
          IN /\ \A k \in 1..Len(emitted) : emitted[k].at >= NextTab(lines, 2)
             /\ KeysAreFinals(valid, result)
             /\ \A k \in DOMAIN result :
                   LET h == LastWithFinal(valid, k)
                   IN IF RecCommit(valid, h) = ZeroHash
                      THEN IsUncommitted(valid, h, result[k])
                      ELSE FromLines(valid, h, result[k])

(***************************************************************************)
(* The command's target and the repository root (SpecLocate).              *)
(***************************************************************************)

\* the directory the search covers first: the path's parent for a file
StartOf == IF is_file THEN SubSeq(path, 1, Len(path) - 1) ELSE path

\* the depths of the directories among StartOf and its ancestors that have the marker
Marked == { k \in 0..Len(StartOf) : SubSeq(StartOf, 1, k) \in git_dirs }

Deepest(S) == CHOOSE k \in S : \A m \in S : m <= k

\* C11 as stated: the target argument of the command is relative to its
\* working directory: with a repository root the command runs in the root and
\* the argument is the canonical path without the root prefix; without one it
\* runs in the file's parent and the argument is just the file name.
C11_TargetRelativeToWorkingDir ==
    lpc = "done" /\ is_file =>
        LET target == blame_path[1]
        IN IF git_dir # None
           THEN /\ working_dir = git_dir
                /\ ~target.absolute
                /\ git_dir[1] \o target.comps = path
           ELSE /\ working_dir = Some(StartOf)
                /\ target = [absolute |-> FALSE, comps |-> <<path[Len(path)]>>]

\* C12: find_git_dir returns the nearest directory with the marker among the
\* start directory (the path's parent for a file, the path itself otherwise)
\* and its ancestors, returns None exactly when none of them has it, and its
\* loop runs at most once per such directory.
C12_NearestMarkedAncestor ==
    /\ steps <= Len(StartOf) + 1
    /\ lpc \in {"build", "done"} =>
          /\ git_dir = None <=> Marked = {}
          /\ Marked # {} => git_dir = Some(SubSeq(StartOf, 1, Deepest(Marked)))
          /\ steps = IF Marked = {} THEN Len(StartOf) + 1
                     ELSE Len(StartOf) - Deepest(Marked) + 1

\* C12 witness: two ancestors have the marker, the start directory has not,
\* and the search has returned after walking up
C12_Witness ==
    /\ lpc = "done"
    /\ Cardinality(Marked) >= 2
    /\ Len(StartOf) \notin Marked
    /\ Elsewhere \in git_dirs
    /\ steps >= 2
    /\ git_dir # None

(***************************************************************************)
(* The formatting functions (SpecFormat).                                  *)
(***************************************************************************)

\* the elapsed time of the format_timestamp call
Elapsed == args.now - args.timestamp_secs

Units ==
    << [size |-> 1,        name |-> "s"],
       [size |-> 60,       name |-> "m"],
       [size |-> 3600,     name |-> "h"],
       [size |-> 86400,    name |-> "d"],
       [size |-> 604800,   name |-> "w"],
       [size |-> 2592000,  name |-> "mo"],
       [size |-> 31536000, name |-> "y"] >>

\* the largest unit that does not exceed d; seconds below one minute
UnitOf(d) ==
    LET fit == { k \in 1..Len(Units) : Units[k].size <= d }
    IN IF fit = {} THEN Units[1] ELSE Units[Deepest(fit)]

\* text is the decimal numeral of q, the unit name and " ago"
Reads(text, q, name) ==
    \E k \in 1..Len(text) :
        /\ AllDigits(SubSeq(text, 1, k))
        /\ k = 1 \/ SubSeq(text, 1, 1) # "0"
        /\ DigitsValue(SubSeq(text, 1, k), 0) = q
        /\ SubSeq(text, k + 1, Len(text)) = name \o " ago"

\* C13: for an elapsed time d >= 0 format_timestamp returns d in seconds below
\* 60, in whole minutes below 3600, hours below 86400, days below 604800,
\* weeks below 2592000, months below 31536000 and years from there on; at a
\* threshold the label is 1 of the next unit.
C13_Buckets ==
    fpc = "done" /\ fn = "format_timestamp" /\ Elapsed >= 0 =>
        /\ output.ok
        /\ Reads(output.val, Elapsed \div UnitOf(Elapsed).size, UnitOf(Elapsed).name)
        /\ \A k \in 2..Len(Units) :
              Elapsed = Units[k].size => output.val = "1" \o Units[k].name \o " ago"

\* C13 witness: a call with exactly one year elapsed has returned
C13_Witness ==
    /\ fpc = "done"
    /\ fn = "format_timestamp"
    /\ Elapsed = 31536000
    /\ output.val = "1y ago"

\* C14 as stated: for a timestamp equal to or later than the clock reading
\* format_timestamp returns a seconds label whose number is not negative.
C14_NeverNegative ==
    fpc = "done" /\ fn = "format_timestamp" /\ Elapsed <= 0 =>
        \E q \in 0..(0 - Elapsed) : Reads(output.val, q, "s")

\* s followed by spaces up to w characters, s itself when it is longer
Column(s, w) == IF Len(s) >= w THEN s ELSE s \o Rep(" ", w - Len(s))

\* the first n characters of s, s itself when it has fewer
FirstChars(s, n) == IF Len(s) <= n THEN s ELSE SubSeq(s, 1, n)

\* s cut or padded to exactly w characters, as the claims describe it
Fitted(s, w) ==
    IF Len(s) <= w THEN Column(s, w) ELSE SubSeq(s, 1, w - 3) \o "..."

C16_ExactWidth ==
    fpc = "done" /\ fn = "truncate_str" /\ args.max_len >= 3 =>
        /\ output.ok
        /\ Len(output.val) = args.max_len
        /\ output.val = Fitted(args.s, args.max_len)

(***************************************************************************)
(* Defaults and termination of the parser (SpecParse).                     *)
(***************************************************************************)

\* the lines (1-based) the metadata loop read for entry e before its tab line
MetaOf(e) == (e.at + 2)..(e.next - 1)

AuthorLinesOf(e) == { m \in MetaOf(e) : StartsWith(lines[m], "author ") }

TimeLinesOf(e) ==
    { m \in MetaOf(e) : /\ StartsWith(lines[m], "author-time ")
                        /\ ParseI64(StripPrefix(lines[m], "author-time ")).ok }

\* C17 as stated: for a commit seen for the first time the resolved author is
\* "Unknown" when no 'author ' line precedes the tab line and also when the
\* 'author ' line has an empty value; the resolved time is "" when no
\* 'author-time ' line with an integer value occurs.
C17_DefaultsWhenMissing ==
    \A k \in 1..Len(emitted) :
        ~emitted[k].seen =>
            LET e == emitted[k]
                resolved == commit_cache[e.commit]
            IN /\ AuthorLinesOf(e) = {} => resolved[1] = "Unknown"
               /\ /\ AuthorLinesOf(e) # {}
                  /\ lines[Deepest(AuthorLinesOf(e))] = "author "
                  => resolved[1] = "Unknown"
               /\ TimeLinesOf(e) = {} => resolved[2] = ""

\* C18: parse_git_blame_porcelain terminates on every text: each iteration of
\* the outer loop starts with the cursor below the number of lines and ends
\* with a larger cursor, the cursor never passes the end by more than one, and
\* there are at most as many iterations and emitted records as lines.
C18_CursorAdvances ==
    /\ [](/\ iterations <= Len(lines)
          /\ Len(emitted) <= iterations
          /\ i <= Len(lines) + 1
          /\ \A k \in 1..Len(emitted) : emitted[k].at < Len(lines))
    /\ [][iterations' # iterations => i < Len(lines) /\ i' > i]_vars

\* C18 witness: a text with skipped lines and a last record cut off before
\* its tab line has been parsed to the end
C18_Witness ==
    /\ ppc = "done"
    /\ i = Len(lines) + 1
    /\ Len(emitted) >= 2
    /\ iterations > Len(emitted)

(***************************************************************************)
(* Progress and provenance of get_blame (SpecFair, Spec).                  *)
(***************************************************************************)

\* C19: under a fair scheduler and with commands that end, every call of
\* get_blame returns; no thread asks for the lock while it holds it; whoever
\* holds the lock is at the step of its critical section, which no other
\* thread can hold up, and releases the lock.
C19_CallsReturn ==
    /\ \A t \in Threads : (pc[t] \notin {"idle", "done"}) ~> (pc[t] = "done")
    /\ \A t \in Threads : (lock = t) ~> (lock # t)
    /\ [](\A t \in Threads :
            /\ pc[t] \in {"lock_check", "lock_insert", "lock_final"} => lock # t
            /\ lock = t => pc[t] \in {"check", "insert", "final"})

\* C19 witness: every thread has returned from a call, one of them after
\* running the command, and no call is left to start
C19_Witness ==
    /\ \A t \in Threads : pc[t] = "done"
    /\ \E t \in Threads : outcome[t] = "ok"
    /\ calls = MaxCalls
    /\ lock = Free

\* C20: a call returns the entry for its line (or None) of the table the cache
\* holds under the call's own path string when it looks, and a table gets
\* under a path string only by the insert of a call for that path string.
C20_ResultFromOwnPath ==
    [][/\ \A t \in Threads :
             pc[t] # "done" /\ pc'[t] = "done" =>
                /\ file_path[t] \in DOMAIN cache
                /\ cache' = cache
                /\ ret'[t] = IF line_number[t] \in DOMAIN cache[file_path[t]]
                             THEN Some(cache[file_path[t]][line_number[t]])
                             ELSE None
       /\ \A k \in DOMAIN cache' :
             k \notin DOMAIN cache \/ cache'[k] # cache[k] =>
                \E u \in Threads : /\ pc[u] = "insert"
                                   /\ file_path[u] = k
                                   /\ cache'[k] = blame_map[u]]_vars

\* C20 witness: a call whose own command failed has returned a record, read
\* back from a table another thread stored under the same path string
C20_Witness ==
    \E t \in Threads :
        /\ pc[t] = "done"
        /\ outcome[t] = "cmd_err"
        /\ ret[t] # None
        /\ file_path[t] \in DOMAIN cache

====
